---- MODULE Spec2Model ----
(***************************************************************************)
(* Leaderboard scoring, streaks and score decay of the focus-session       *)
(* backend: createSession, startSession, completeSession/updateUserStats,  *)
(* updateLeaderboardScores, getUserStats and getLeaderboard over the       *)
(* sessions, session_blocks and user_stats tables.                         *)
(*                                                                         *)
(* Every handler is a sequence of awaited database statements; between two *)
(* of them other requests run.  An action of this module is one statement  *)
(* of one request, together with the JavaScript that follows it up to the  *)
(* next await.  `procs` holds, for each request in flight, the statement   *)
(* it is waiting to run and the rows its earlier statements returned.  A   *)
(* handler that reads the clock before its first statement                 *)
(* (updateLeaderboardScores, getUserStats) has a step for the call, which  *)
(* keeps the time it read; the statement runs in a later step.  Where a    *)
(* handler runs JavaScript between its last statement and its return       *)
(* (completeSession, getUserStats) the resolution of its promise is a step *)
(* of its own; `lastOp` records the call that returned or threw last.      *)
(*                                                                         *)
(* Time is counted in ticks of 12 hours, TicksPerDay ticks to the day.  A  *)
(* timestamp is a tick number; NULL stands for SQL NULL / JS null.         *)
(*                                                                         *)
(* A leaderboard score is kept exactly, as the pair [m, e] that stands for *)
(* the real number  m * 0.98^(e / TicksPerDay):  m is the integer produced *)
(* by calculateLeaderboardScore and e the number of ticks of decay applied *)
(* since.  POWER(0.98, d1) * POWER(0.98, d2) = POWER(0.98, d1 + d2), so    *)
(* the decay UPDATE adds the elapsed ticks to e.  The rounding of the      *)
(* 'real' column is not modelled.                                          *)
(***************************************************************************)
EXTENDS Integers, Sequences, FiniteSets, TLC

\* ---------------------------------------------------------------- bounds
MaxTime == 4
MaxScoreSessions == 4
MaxScoreDuration == 25
MaxScoreStreak == 22
\* The streak runs: the number of sessions of one goal and the last tick.
MaxStreakSessions == 6
MaxStreakTime == 4
\* The last tick of the runs with reads and of the runs with racing calls.
MaxReadTime == 3
MaxRaceTime == 3
\* The ticks the runs with the records of two users go on for.
MaxRecordsTime == 1
\* The leaderboard runs: the number of users and the last tick.
MaxBoardUsers == 11
MaxBoardTime == 3

\* ------------------------------------------------------------- constants
NULL == 0 - 1
TicksPerDay == 2
HoursPerDay == 24
SessionScore == 10
DurationDivisor == 10
StreakWeight == 5
StreakBonusCap == 100
DecayNumerator == 49
DecayDenominator == 50

ActualDurations == {25}
UserIds == {1, 2}
Categories == {"physical", "mental"}

\* The values of goal_category, in the order ORDER BY category DESC gives
\* them (user_stats.category is a text column).
CategoriesDescending ==
  << "spiritual", "social", "skill", "professional", "physical", "mental",
     "habit", "creative" >>

\* The users of the leaderboard runs have one goal each; user 1 and user 2
\* work on "physical", of the others one half on "physical" and the other on
\* "mental".
BoardCategory(userId) ==
  IF userId <= 2 \/ userId % 2 = 1 THEN "physical" ELSE "mental"

BoardGoal(userId) == IF userId = 1 THEN 1 ELSE userId + 1

\* The goals the sessions refer to (rows of the goals table; no handler
\* changes the owner or the category of a goal).
goalsTable ==
  << [id |-> 1, user_id |-> 1, category |-> "physical"],
     [id |-> 2, user_id |-> 1, category |-> "mental"],
     [id |-> 3, user_id |-> 2, category |-> "physical"] >>
    \o [i \in 1..(MaxBoardUsers - 2) |->
          [id |-> BoardGoal(i + 2), user_id |-> i + 2, category |-> BoardCategory(i + 2)]]

\* The milestones a createSession call may name (rows of the milestones
\* table; no handler modelled here writes it).
milestonesTable ==
  << [id |-> 1, goal_id |-> 1], [id |-> 2, goal_id |-> 2] >>

VARIABLES now, sessions, sessionBlocks, stats, lastOp, scoreArgs, scoreResult,
          procs

mainVars == <<now, sessions, sessionBlocks, stats, lastOp>>
scoreVars == <<scoreArgs, scoreResult>>
callVars == <<procs>>
vars == <<now, sessions, sessionBlocks, stats, lastOp, scoreArgs, scoreResult,
          procs>>

\* ----------------------------------------------------------- helpers
Min(a, b) == IF a <= b THEN a ELSE b

\* JS `a || b` on numbers: b when a is null or 0.
OrElse(a, b) == IF a = NULL \/ a = 0 THEN b ELSE a

\* ------------------------------------------------------ score arithmetic
\* Mutant: the streak bonus is not capped.
calculateLeaderboardScore_Uncapped(completedSessions, totalDuration, streakDays) ==
  completedSessions * SessionScore + (totalDuration \div DurationDivisor)
    + streakDays * StreakWeight

\* Mutant: the minutes are added whole instead of one point per ten minutes.
calculateLeaderboardScore_WholeMinutes(completedSessions, totalDuration, streakDays) ==
  LET baseScore == completedSessions * SessionScore + totalDuration
      streakBonus == Min(streakDays * StreakWeight, StreakBonusCap)
  IN  baseScore + streakBonus

\* Mutant: a streak day is worth twice as many points.
calculateLeaderboardScore_DoubleStreak(completedSessions, totalDuration, streakDays) ==
  LET baseScore == completedSessions * SessionScore + (totalDuration \div DurationDivisor)
      streakBonus == Min(streakDays * 2 * StreakWeight, StreakBonusCap)
  IN  baseScore + streakBonus

calculateLeaderboardScore(completedSessions, totalDuration, streakDays) ==
  LET baseScore == completedSessions * SessionScore + (totalDuration \div DurationDivisor)
      streakBonus == Min(streakDays * StreakWeight, StreakBonusCap)
  IN  baseScore + streakBonus

\* The score column holding the integer n (no decay applied yet).
FreshScore(n) == [m |-> n, e |-> 0]

\* Mutant: the decay subtracts a fixed amount per tick instead of multiplying.
DecayedScore_Subtractive(score, ticks) == [m |-> score.m - 10 * ticks, e |-> score.e]

\* leaderboard_score * POWER(0.98, ticks / TicksPerDay)
DecayedScore(score, ticks) == [m |-> score.m, e |-> score.e + ticks]

\* leaderboard_score > 0
ScorePositive(score) == score.m > 0

\* Exact comparison of two scores.  With r = 0.98^(1/TicksPerDay),
\*   a.m * r^a.e < b.m * r^b.e
\* iff  a.m^T * 49^a.e * 50^b.e < b.m^T * 49^b.e * 50^a.e   (T = TicksPerDay),
\* computed on natural numbers written as little-endian sequences of
\* base-1000 digits, so that no product leaves TLC's integer range.
RECURSIVE BigOf(_)
BigOf(n) == IF n = 0 THEN <<>> ELSE <<n % (10 * 100)>> \o BigOf(n \div (10 * 100))

RECURSIVE BigMulFrom(_, _, _, _)
BigMulFrom(big, k, i, carry) ==
  IF i > Len(big) THEN BigOf(carry)
  ELSE LET v == big[i] * k + carry
       IN  <<v % (10 * 100)>> \o BigMulFrom(big, k, i + 1, v \div (10 * 100))

BigMul(big, k) == IF k = 0 THEN <<>> ELSE BigMulFrom(big, k, 1, 0)

RECURSIVE BigPowMul(_, _, _)
BigPowMul(big, k, n) == IF n = 0 THEN big ELSE BigPowMul(BigMul(big, k), k, n - 1)

BigLess(a, b) ==
  \/ Len(a) < Len(b)
  \/ /\ Len(a) = Len(b)
     /\ \E i \in 1..Len(a) :
          /\ a[i] < b[i]
          /\ \A j \in (i + 1)..Len(a) : a[j] = b[j]

ScoreKey(score, otherE) ==
  BigPowMul(BigPowMul(BigPowMul(BigOf(1), score.m, TicksPerDay),
                      DecayNumerator, score.e),
            DecayDenominator, otherE)

RECURSIVE Pow(_, _)
Pow(base, n) == IF n = 0 THEN 1 ELSE base * Pow(base, n - 1)

\* The same comparison on plain integers, after cancelling the common powers:
\* with d = a.e - b.e >= 0,  a.m^T * 49^d < b.m^T * 50^d.
ScoreLessSmall(a, b) ==
  IF a.e >= b.e
  THEN Pow(a.m, TicksPerDay) * Pow(DecayNumerator, a.e - b.e)
         < Pow(b.m, TicksPerDay) * Pow(DecayDenominator, a.e - b.e)
  ELSE Pow(a.m, TicksPerDay) * Pow(DecayDenominator, b.e - a.e)
         < Pow(b.m, TicksPerDay) * Pow(DecayNumerator, b.e - a.e)

\* The products of ScoreLessSmall stay below 2^31 (130^2 * 50^3 < 2^31).
FitsInteger(a, b) ==
  /\ TicksPerDay = 2
  /\ a.m <= 130 /\ b.m <= 130
  /\ a.e - b.e <= 3 /\ b.e - a.e <= 3

ScoreLess(a, b) ==
  IF a.e = b.e THEN a.m < b.m
  ELSE IF FitsInteger(a, b) THEN ScoreLessSmall(a, b)
  ELSE BigLess(ScoreKey(a, b.e), ScoreKey(b, a.e))


\* ------------------------------------------------------------ the tables
Day == TicksPerDay
HoursPerTick == HoursPerDay \div TicksPerDay

\* The outcome of the last call that has returned or thrown: its name, for a
\* decay sweep the time it read and the updatedCount it returned, for a
\* leaderboard read its input and the records it returned.
NoOp == [op |-> "none", at |-> 0, updatedCount |-> 0,
         category |-> <<>>, limit |-> NULL, rows |-> <<>>]

\* The requests in flight.  `pc` names the statement the request runs next,
\* `sid` and `actual` are the input of completeSession and startSession,
\* `session` holds the row a statement on sessions returned (for
\* createSession the row it is going to insert), `existingStats` the rows its
\* SELECT of user_stats returned, `t` the value of the last `new Date()` it
\* evaluated (for getUserStats the streak threshold, in hours), `userId` and
\* `category` the input of a getUserStats call, `rowPc` how far the callback
\* of each selected record is, and `blockedApps`, `blockedWebsites` the
\* numbers of apps and websites a createSession call names.
Workers == {1, 2}

IdleProc == [pc |-> "idle", sid |-> 0, actual |-> NULL, session |-> <<>>,
             t |-> 0, existingStats |-> <<>>, userId |-> 0, category |-> "",
             rowPc |-> <<>>, blockedApps |-> 0, blockedWebsites |-> 0]

NoProcs == [p \in Workers |-> IdleProc]

\* A row of sessions as createSession inserts it.
ScheduledSession(sid, userId, goalId, milestoneId, planned) ==
  [id |-> sid, user_id |-> userId, goal_id |-> goalId,
   milestone_id |-> OrElse(milestoneId, NULL),
   planned_duration |-> planned, actual_duration |-> NULL,
   status |-> "scheduled", completed_at |-> NULL]

\* A session without milestone that createSession and startSession have
\* handled (the state the completeSession tests start from).
ActiveSession(sid, userId, goalId, planned) ==
  [ScheduledSession(sid, userId, goalId, NULL, planned) EXCEPT !.status = "active"]

\* Any order of the rows of a result: a SELECT without ORDER BY promises none.
RECURSIVE AnyOrder(_)
AnyOrder(rows) ==
  IF Len(rows) = 0 THEN {<<>>}
  ELSE UNION {{<<rows[i]>> \o rest :
                 rest \in AnyOrder(SubSeq(rows, 1, i - 1)
                                     \o SubSeq(rows, i + 1, Len(rows)))} :
              i \in DOMAIN rows}

\* The clock: new Date() reads `now`.
TickUpTo(bound) ==
  /\ now < bound
  /\ now' = now + 1
  /\ UNCHANGED <<sessions, sessionBlocks, stats, lastOp, scoreVars, callVars>>

Tick == TickUpTo(MaxTime)

\* --------------------------------------------------------- completeSession
\* Mutant: a gap of more than one day keeps counting instead of resetting.
NewStreak_NoReset(row, t) ==
  IF row.last_activity # NULL
  THEN LET daysDiff == (t - row.last_activity) \div Day
       IN  row.streak_days + (IF daysDiff >= 1 THEN 1 ELSE 0)
  ELSE 1

\* The streak of an existing record after a completion at time t.
NewStreak(row, t) ==
  IF row.last_activity # NULL
  THEN LET daysDiff == (t - row.last_activity) \div Day
       IN  IF daysDiff <= 1
           THEN row.streak_days + (IF daysDiff = 1 THEN 1 ELSE 0)
           ELSE 1
  ELSE 1

\* Mutant: the first record starts with no streak day counted.
NewStatsRow_ZeroStreak(table, userId, category, actualDuration, t) ==
  [id |-> Len(table) + 1,
   user_id |-> userId,
   category |-> category,
   total_sessions |-> 1,
   completed_sessions |-> 1,
   total_duration |-> actualDuration,
   streak_days |-> 0,
   last_activity |-> t,
   leaderboard_score |-> FreshScore(calculateLeaderboardScore(1, actualDuration, 0)),
   last_score_update |-> t]

\* The row inserted when the user has no record in the category.
NewStatsRow(table, userId, category, actualDuration, t) ==
  [id |-> Len(table) + 1,
   user_id |-> userId,
   category |-> category,
   total_sessions |-> 1,
   completed_sessions |-> 1,
   total_duration |-> actualDuration,
   streak_days |-> 1,
   last_activity |-> t,
   leaderboard_score |-> FreshScore(calculateLeaderboardScore(1, actualDuration, 1)),
   last_score_update |-> t]

\* Mutant: the score is computed from the counters as they were before.
UpdatedStatsRow_StaleScore(row, first, actualDuration, t) ==
  [row EXCEPT !.total_sessions = first.total_sessions + 1,
              !.completed_sessions = first.completed_sessions + 1,
              !.total_duration = first.total_duration + actualDuration,
              !.streak_days = NewStreak(first, t),
              !.last_activity = t,
              !.leaderboard_score =
                 FreshScore(calculateLeaderboardScore(first.completed_sessions,
                                                      first.total_duration,
                                                      first.streak_days)),
              !.last_score_update = t]

\* Mutant: the completion leaves last_score_update as it was.
UpdatedStatsRow_KeepsScoreClock(row, first, actualDuration, t) ==
  [row EXCEPT !.total_sessions = first.total_sessions + 1,
              !.completed_sessions = first.completed_sessions + 1,
              !.total_duration = first.total_duration + actualDuration,
              !.streak_days = NewStreak(first, t),
              !.last_activity = t,
              !.leaderboard_score =
                 FreshScore(calculateLeaderboardScore(first.completed_sessions + 1,
                                                      first.total_duration + actualDuration,
                                                      NewStreak(first, t)))]

\* Mutant: the new score keeps the decay of the record that was read.
UpdatedStatsRow_KeepsDecay(row, first, actualDuration, t) ==
  [row EXCEPT !.total_sessions = first.total_sessions + 1,
              !.completed_sessions = first.completed_sessions + 1,
              !.total_duration = first.total_duration + actualDuration,
              !.streak_days = NewStreak(first, t),
              !.last_activity = t,
              !.leaderboard_score =
                 [m |-> calculateLeaderboardScore(first.completed_sessions + 1,
                                                  first.total_duration + actualDuration,
                                                  NewStreak(first, t)),
                  e |-> first.leaderboard_score.e],
              !.last_score_update = t]

\* Mutant: the completion adds the points gained to the score that is stored,
\* decay included, instead of storing the score of the new counters.
UpdatedStatsRow_AddsToScore(row, first, actualDuration, t) ==
  [row EXCEPT !.total_sessions = first.total_sessions + 1,
              !.completed_sessions = first.completed_sessions + 1,
              !.total_duration = first.total_duration + actualDuration,
              !.streak_days = NewStreak(first, t),
              !.last_activity = t,
              !.leaderboard_score =
                 [m |-> first.leaderboard_score.m
                          + calculateLeaderboardScore(first.completed_sessions + 1,
                                                      first.total_duration + actualDuration,
                                                      NewStreak(first, t))
                          - calculateLeaderboardScore(first.completed_sessions,
                                                      first.total_duration,
                                                      first.streak_days),
                  e |-> first.leaderboard_score.e],
              !.last_score_update = t]

\* Mutant: the UPDATE counts the session as completed but not in the total.
UpdatedStatsRow_TotalNotCounted(row, first, actualDuration, t) ==
  [row EXCEPT !.completed_sessions = first.completed_sessions + 1,
              !.total_duration = first.total_duration + actualDuration,
              !.streak_days = NewStreak(first, t),
              !.last_activity = t,
              !.leaderboard_score =
                 FreshScore(calculateLeaderboardScore(first.completed_sessions + 1,
                                                      first.total_duration + actualDuration,
                                                      NewStreak(first, t))),
              !.last_score_update = t]

\* The values the UPDATE sets, computed from the first record selected.
UpdatedStatsRow(row, first, actualDuration, t) ==
  LET newTotalSessions == first.total_sessions + 1
      newCompletedSessions == first.completed_sessions + 1
      newTotalDuration == first.total_duration + actualDuration
      newStreak == NewStreak(first, t)
      newScore == calculateLeaderboardScore(newCompletedSessions, newTotalDuration, newStreak)
  IN  [row EXCEPT !.total_sessions = newTotalSessions,
                  !.completed_sessions = newCompletedSessions,
                  !.total_duration = newTotalDuration,
                  !.streak_days = newStreak,
                  !.last_activity = t,
                  !.leaderboard_score = FreshScore(newScore),
                  !.last_score_update = t]

\* Mutant: the UPDATE's WHERE clause names the category but not the user.
WriteUserStats_AnyUser(table, userId, session, t, existingStats) ==
  LET goalResults == SelectSeq(goalsTable, LAMBDA g : g.id = session.goal_id)
  IN  IF Len(goalResults) = 0 THEN table
      ELSE
        LET category == goalResults[1].category
            actualDuration == OrElse(session.actual_duration, session.planned_duration)
        IN  IF Len(existingStats) = 0
            THEN Append(table, NewStatsRow(table, userId, category, actualDuration, t))
            ELSE [i \in DOMAIN table |->
                    IF table[i].category = category
                    THEN UpdatedStatsRow(table[i], existingStats[1], actualDuration, t)
                    ELSE table[i]]

\* The category of a session's goal ("" when the goal is missing).
SessionCategory(session) ==
  LET goalResults == SelectSeq(goalsTable, LAMBDA g : g.id = session.goal_id)
  IN  IF Len(goalResults) = 0 THEN "" ELSE goalResults[1].category

\* The results updateUserStats may get from its SELECT of the records of the
\* session's user in the category of its goal (no row when the goal is
\* missing); the statement has no ORDER BY.
SelectExistingStats(table, userId, session) ==
  LET category == SessionCategory(session)
      Matches(r) == r.user_id = userId /\ r.category = category
  IN  IF category = "" THEN {<<>>} ELSE AnyOrder(SelectSeq(table, Matches))

\* The INSERT or UPDATE of updateUserStats on the table as it is when the
\* statement runs, given the records its SELECT returned.
WriteUserStats(table, userId, session, t, existingStats) ==
  LET goalResults == SelectSeq(goalsTable, LAMBDA g : g.id = session.goal_id)
  IN  IF Len(goalResults) = 0 THEN table
      ELSE
        LET category == goalResults[1].category
            Matches(r) == r.user_id = userId /\ r.category = category
            actualDuration == OrElse(session.actual_duration, session.planned_duration)
        IN  IF Len(existingStats) = 0
            THEN Append(table, NewStatsRow(table, userId, category, actualDuration, t))
            ELSE [i \in DOMAIN table |->
                    IF Matches(table[i])
                    THEN UpdatedStatsRow(table[i], existingStats[1], actualDuration, t)
                    ELSE table[i]]

\* Mutant: the status check is missing, any existing session is completed.
SessionCompletable_AnyStatus(sid) == sid \in 1..Len(sessions)

\* The session exists and its status is 'active'.
SessionCompletable(sid) ==
  IF sid \in 1..Len(sessions) THEN sessions[sid].status = "active" ELSE FALSE

\* The row the UPDATE of sessions leaves and returns.
CompletedSession(session, actual, planned, completedAt) ==
  [session EXCEPT !.status = "completed",
                  !.completed_at = completedAt,
                  !.actual_duration = OrElse(actual, planned)]

\* The UPDATE of session_blocks: every block of the session is deactivated.
DeactivatedBlocks(blocks, sid) ==
  [i \in DOMAIN blocks |->
     IF blocks[i].session_id = sid
     THEN [blocks[i] EXCEPT !.is_active = FALSE]
     ELSE blocks[i]]

\* Mutant: updateUserStats lets its error escape, completeSession rethrows it.
StatsErrorOutcome_Rethrown == "throw"

\* updateUserStats catches its own error and returns; completeSession goes on
\* to return the updated session.
StatsErrorOutcome == "return"

\* The SELECT of the session, the two checks and `completedAt = new Date()`;
\* a missing or non-active session throws before anything is written.
SelectSession(p, sid, actual) ==
  /\ procs[p].pc = "idle"
  /\ IF SessionCompletable(sid)
     THEN /\ procs' = [procs EXCEPT ![p] = [IdleProc EXCEPT !.pc = "update",
                                                            !.sid = sid,
                                                            !.actual = actual,
                                                            !.session = <<sessions[sid]>>,
                                                            !.t = now]]
          /\ UNCHANGED lastOp
     ELSE /\ lastOp' = [NoOp EXCEPT !.op = "completeSessionError"]
          /\ UNCHANGED procs
  /\ UNCHANGED <<now, sessions, sessionBlocks, stats, scoreVars>>

\* The UPDATE of the session, WHERE id = session_id, RETURNING the row.
UpdateSession(p) ==
  /\ procs[p].pc = "update"
  /\ LET sid == procs[p].sid
         updatedSession == CompletedSession(sessions[sid], procs[p].actual,
                                            procs[p].session[1].planned_duration,
                                            procs[p].t)
     IN  /\ sessions' = [sessions EXCEPT ![sid] = updatedSession]
         /\ procs' = [procs EXCEPT ![p].pc = "blocks", ![p].session = <<updatedSession>>]
  /\ UNCHANGED <<now, sessionBlocks, stats, lastOp, scoreVars>>

\* The UPDATE of session_blocks.
UpdateSessionBlocks(p) ==
  /\ procs[p].pc = "blocks"
  /\ sessionBlocks' = DeactivatedBlocks(sessionBlocks, procs[p].sid)
  /\ procs' = [procs EXCEPT ![p].pc = "goal"]
  /\ UNCHANGED <<now, sessions, stats, lastOp, scoreVars>>

\* A database error at the UPDATE of sessions or of session_blocks: the
\* catch of completeSession logs and rethrows it.
CompleteSessionThrows(p) ==
  /\ procs[p].pc \in {"update", "blocks", "throw"}
  /\ procs' = [procs EXCEPT ![p] = IdleProc]
  /\ lastOp' = [NoOp EXCEPT !.op = "completeSessionError"]
  /\ UNCHANGED <<now, sessions, sessionBlocks, stats, scoreVars>>

\* The SELECT of the session's goal in updateUserStats; without a goal it
\* warns and returns.
SelectGoal(p) ==
  /\ procs[p].pc = "goal"
  /\ procs' = [procs EXCEPT
                 ![p].pc = IF SessionCategory(procs[p].session[1]) = ""
                           THEN "return" ELSE "select"]
  /\ UNCHANGED <<now, sessions, sessionBlocks, stats, lastOp, scoreVars>>

\* The SELECT of the existing records of the user and category, and
\* `const now = new Date()` after it.
SelectUserStats(p) ==
  /\ procs[p].pc = "select"
  /\ LET session == procs[p].session[1]
     IN  \E existingStats \in SelectExistingStats(stats, session.user_id, session) :
           procs' = [procs EXCEPT ![p].pc = "write",
                                  ![p].existingStats = existingStats,
                                  ![p].t = now]
  /\ UNCHANGED <<now, sessions, sessionBlocks, stats, lastOp, scoreVars>>

\* The INSERT or UPDATE of updateUserStats, with the values computed from the
\* records selected earlier.
InsertOrUpdateUserStats(p) ==
  /\ procs[p].pc = "write"
  /\ LET session == procs[p].session[1]
     IN  stats' = WriteUserStats(stats, session.user_id, session, procs[p].t,
                                 procs[p].existingStats)
  /\ procs' = [procs EXCEPT ![p].pc = "return"]
  /\ UNCHANGED <<now, sessions, sessionBlocks, lastOp, scoreVars>>

\* A database error at a statement of updateUserStats: its catch logs the
\* error and returns.
UpdateUserStatsFails(p) ==
  /\ procs[p].pc \in {"goal", "select", "write"}
  /\ procs' = [procs EXCEPT ![p].pc = StatsErrorOutcome]
  /\ UNCHANGED <<now, sessions, sessionBlocks, stats, lastOp, scoreVars>>

\* The promise of completeSession resolves with the updated session.
ReturnSession(p) ==
  /\ procs[p].pc = "return"
  /\ procs' = [procs EXCEPT ![p] = IdleProc]
  /\ lastOp' = [NoOp EXCEPT !.op = "completeSession"]
  /\ UNCHANGED <<now, sessions, sessionBlocks, stats, scoreVars>>
\* Mutant: the 24-hour window is ignored, every positive score is selected.
DecaySelected_NoWindow(row, t) == ScorePositive(row.leaderboard_score)

\* Mutant: a score updated exactly 24 hours ago is selected too.
DecaySelected_Inclusive(row, t) ==
  /\ row.last_score_update <= t - Day
  /\ ScorePositive(row.leaderboard_score)

\* Mutant: only scores updated more than two days ago are selected.
DecaySelected_TwoDays(row, t) ==
  /\ row.last_score_update < t - 2 * Day
  /\ ScorePositive(row.leaderboard_score)

\* WHERE last_score_update < twentyFourHoursAgo AND leaderboard_score > 0
DecaySelected(row, t) ==
  /\ row.last_score_update < t - Day
  /\ ScorePositive(row.leaderboard_score)

\* Mutant: the elapsed time is floored to whole days before decaying.
DecayRow_WholeDays(row, t) ==
  [row EXCEPT !.leaderboard_score =
                 DecayedScore(row.leaderboard_score,
                              ((t - row.last_score_update) \div Day) * Day),
              !.last_score_update = t]

\* Mutant: the decay leaves last_score_update as it was.
DecayRow_KeepsClock(row, t) ==
  [row EXCEPT !.leaderboard_score =
                 DecayedScore(row.leaderboard_score, t - row.last_score_update)]

\* SET leaderboard_score = leaderboard_score * POWER(0.98, days), last_score_update = now
DecayRow(row, t) ==
  [row EXCEPT !.leaderboard_score =
                 DecayedScore(row.leaderboard_score, t - row.last_score_update),
              !.last_score_update = t]

\* updateLeaderboardScores up to its await: `const now = new Date()`, from
\* which the decay and the threshold of the statement are built.
UpdateLeaderboardScoresCall(p) ==
  /\ procs[p].pc = "idle"
  /\ procs' = [procs EXCEPT ![p] = [IdleProc EXCEPT !.pc = "sweep", !.t = now]]
  /\ UNCHANGED <<now, sessions, sessionBlocks, stats, lastOp, scoreVars>>

\* The UPDATE, with the `now` the call read; the call returns its rowCount.
UpdateLeaderboardScores(p) ==
  /\ procs[p].pc = "sweep"
  /\ LET t == procs[p].t
     IN  /\ stats' = [i \in DOMAIN stats |->
                        IF DecaySelected(stats[i], t) THEN DecayRow(stats[i], t)
                        ELSE stats[i]]
         /\ lastOp' = [NoOp EXCEPT
                         !.op = "updateLeaderboardScores", !.at = t,
                         !.updatedCount =
                            Cardinality({i \in DOMAIN stats : DecaySelected(stats[i], t)})]
  /\ procs' = [procs EXCEPT ![p] = IdleProc]
  /\ UNCHANGED <<now, sessions, sessionBlocks, scoreVars>>

\* ------------------------------------------------------------ getUserStats
\* The results of ORDER BY ... LIMIT k over a set of rows, each paired with
\* the number of rows that must come before it: every sequence of k rows (all
\* of them when there are fewer) in which no row left comes before a row
\* taken; rows of equal score come in any order.
RECURSIVE OrderedLimit(_, _)
OrderedLimit(ranked, k) ==
  IF k = 0 \/ ranked = {} THEN {<<>>}
  ELSE UNION {{<<x[2]>> \o rest : rest \in OrderedLimit(ranked \ {x}, k - 1)} :
                x \in {y \in ranked : \A z \in ranked : y[1] <= z[1]}}

\* `streakThreshold.setDate(streakThreshold.getDate() - 1)` is the same wall
\* clock time on the day before in the server's time zone: 24 hours back, or
\* 23 or 25 hours back across a change of the clocks.
CalendarDayHours == {HoursPerDay - 1, HoursPerDay, HoursPerDay + 1}

\* Completed sessions of the user with completed_at >= streakThreshold (the
\* threshold is in hours).
RecentSessions(userId, streakThreshold) ==
  SelectSeq(sessions, LAMBDA x : /\ x.user_id = userId
                                 /\ x.status = "completed"
                                 /\ x.completed_at # NULL
                                 /\ x.completed_at * HoursPerTick >= streakThreshold)

\* `stat.last_activity && stat.last_activity < streakThreshold`
StreakStale(row, streakThreshold) ==
  /\ row.last_activity # NULL
  /\ row.last_activity * HoursPerTick < streakThreshold

\* `recentSessions.length === 0 && stat.streak_days > 0`
StreakNeedsReset(row, recentSessions) ==
  Len(recentSessions) = 0 /\ row.streak_days > 0

\* The UPDATE that resets a streak, on the row as it is when it runs.
StreakReset(row, t) == [row EXCEPT !.streak_days = 0, !.last_score_update = t]

\* ORDER BY category DESC: the number of categories that come before.
CategoryPosition(category) ==
  CHOOSE i \in DOMAIN CategoriesDescending : CategoriesDescending[i] = category

\* The records getUserStats selects; `if (input.category)` takes the missing
\* and the empty string, written "" here, as no filter.
StatsWanted(row, userId, category) ==
  row.user_id = userId /\ (category = "" \/ row.category = category)

\* The results the SELECT of getUserStats may give: the wanted records by
\* category descending, records of one category in any order.
SelectedStats(table, userId, category) ==
  LET wanted == {table[i] : i \in {j \in DOMAIN table :
                                      StatsWanted(table[j], userId, category)}}
      ranked == {<<CategoryPosition(r.category), r>> : r \in wanted}
  IN  OrderedLimit(ranked, Cardinality(wanted))

\* How far the callback of a selected record is: about to SELECT the recent
\* sessions, about to run the reset UPDATE with the `new Date()` it has
\* evaluated, or done.
RowAt(pc, at) == [pc |-> pc, at |-> at]

\* getUserStats up to its first await: the threshold, from the `new Date()`
\* of the call, and the statement it builds.
GetUserStatsCall(p, userId, category, dayHours) ==
  /\ procs[p].pc = "idle"
  /\ procs' = [procs EXCEPT ![p] =
                 [IdleProc EXCEPT !.pc = "stats",
                                  !.userId = userId,
                                  !.category = category,
                                  !.t = now * HoursPerTick - dayHours]]
  /\ UNCHANGED <<now, sessions, sessionBlocks, stats, lastOp, scoreVars>>

\* The SELECT of the records and the start of the callbacks: for each record
\* the test of last_activity, on the record as selected, against the
\* threshold of the call.
SelectStats(p) ==
  /\ procs[p].pc = "stats"
  /\ \E results \in SelectedStats(stats, procs[p].userId, procs[p].category) :
       procs' = [procs EXCEPT
                   ![p].pc = "read",
                   ![p].existingStats = results,
                   ![p].rowPc = [i \in DOMAIN results |->
                                   IF StreakStale(results[i], procs[p].t)
                                   THEN RowAt("recent", 0) ELSE RowAt("done", 0)]]
  /\ UNCHANGED <<now, sessions, sessionBlocks, stats, lastOp, scoreVars>>

\* The SELECT of the user's recent completed sessions in the callback of one
\* stale record, the test that follows and the `new Date()` of the UPDATE
\* it builds.
SelectRecentSessions(p, i) ==
  /\ procs[p].pc = "read"
  /\ i \in DOMAIN procs[p].rowPc
  /\ procs[p].rowPc[i].pc = "recent"
  /\ LET stat == procs[p].existingStats[i]
         recentSessions == RecentSessions(procs[p].userId, procs[p].t)
     IN  procs' = [procs EXCEPT
                     ![p].rowPc[i] = IF StreakNeedsReset(stat, recentSessions)
                                     THEN RowAt("reset", now) ELSE RowAt("done", 0)]
  /\ UNCHANGED <<now, sessions, sessionBlocks, stats, lastOp, scoreVars>>

\* The UPDATE ... WHERE id = stat.id RETURNING of one callback; the callback
\* returns the row the statement returned.
ResetStreak(p, i) ==
  /\ procs[p].pc = "read"
  /\ i \in DOMAIN procs[p].rowPc
  /\ procs[p].rowPc[i].pc = "reset"
  /\ LET stat == procs[p].existingStats[i]
         at == procs[p].rowPc[i].at
         updated == SelectSeq([j \in DOMAIN stats |-> StreakReset(stats[j], at)],
                              LAMBDA r : r.id = stat.id)
     IN  /\ stats' = [j \in DOMAIN stats |->
                        IF stats[j].id = stat.id THEN StreakReset(stats[j], at)
                        ELSE stats[j]]
         /\ procs' = [procs EXCEPT ![p].rowPc[i] = RowAt("done", 0),
                                   ![p].existingStats[i] = updated[1]]
  /\ UNCHANGED <<now, sessions, sessionBlocks, lastOp, scoreVars>>

\* Promise.all has settled: getUserStats returns the records its callbacks
\* returned, procs[p].existingStats.
ReturnStats(p) ==
  /\ procs[p].pc = "read"
  /\ \A i \in DOMAIN procs[p].rowPc : procs[p].rowPc[i].pc = "done"
  /\ procs' = [procs EXCEPT ![p] = IdleProc]
  /\ lastOp' = [NoOp EXCEPT !.op = "getUserStats"]
  /\ UNCHANGED <<now, sessions, sessionBlocks, stats, scoreVars>>

\* ----------------------------------------------------------- createSession
\* createSession validates the goal (it exists and belongs to the user).
GoalOfUser(userId, goalId) ==
  \E i \in DOMAIN goalsTable :
    goalsTable[i].id = goalId /\ goalsTable[i].user_id = userId

\* createSession validates the milestone it is given: it exists and belongs
\* to the goal.
MilestoneOfGoal(milestoneId, goalId) ==
  \E i \in DOMAIN milestonesTable :
    milestonesTable[i].id = milestoneId /\ milestonesTable[i].goal_id = goalId

\* One row of session_blocks for each blocked app or website, active from
\* the start.
NewSessionBlocks(blocks, sid, blockType, count) ==
  [i \in 1..count |->
     [id |-> Len(blocks) + i, session_id |-> sid, block_type |-> blockType,
      is_active |-> TRUE]]

\* createSession has returned the session.
CreateSessionReturns(p) ==
  /\ procs' = [procs EXCEPT ![p] = IdleProc]
  /\ lastOp' = [NoOp EXCEPT !.op = "createSession"]

\* createSession goes on to the INSERT of the blocks it still has to write.
CreateSessionGoesOn(p, sid, pc) ==
  /\ procs' = [procs EXCEPT ![p].pc = pc, ![p].sid = sid]
  /\ UNCHANGED lastOp

\* The SELECT of the goal: a goal that is missing or belongs to another user
\* throws.  The call keeps the row it is going to insert.
SelectGoalOfUser(p, userId, goalId, milestoneId, planned, blockedApps,
                 blockedWebsites, maxSessions) ==
  /\ procs[p].pc = "idle"
  /\ Len(sessions)
       + Cardinality({q \in Workers : procs[q].pc \in {"milestone", "insert"}})
       < maxSessions
  /\ IF GoalOfUser(userId, goalId)
     THEN /\ procs' = [procs EXCEPT ![p] =
                         [IdleProc EXCEPT
                            !.pc = IF OrElse(milestoneId, NULL) # NULL
                                   THEN "milestone" ELSE "insert",
                            !.session = <<ScheduledSession(NULL, userId, goalId,
                                                           milestoneId, planned)>>,
                            !.blockedApps = blockedApps,
                            !.blockedWebsites = blockedWebsites]]
          /\ UNCHANGED lastOp
     ELSE /\ lastOp' = [NoOp EXCEPT !.op = "createSessionError"]
          /\ UNCHANGED procs
  /\ UNCHANGED <<now, sessions, sessionBlocks, stats, scoreVars>>

\* The SELECT of the milestone of a call that names one: a milestone that is
\* missing or belongs to another goal throws.
SelectMilestone(p) ==
  /\ procs[p].pc = "milestone"
  /\ LET session == procs[p].session[1]
     IN  IF MilestoneOfGoal(session.milestone_id, session.goal_id)
         THEN /\ procs' = [procs EXCEPT ![p].pc = "insert"]
              /\ UNCHANGED lastOp
         ELSE /\ procs' = [procs EXCEPT ![p] = IdleProc]
              /\ lastOp' = [NoOp EXCEPT !.op = "createSessionError"]
  /\ UNCHANGED <<now, sessions, sessionBlocks, stats, scoreVars>>

\* The INSERT of the session, RETURNING the row with its serial id.  Without
\* blocked apps and websites the call returns here.
InsertSession(p) ==
  /\ procs[p].pc = "insert"
  /\ sessions' = Append(sessions, [procs[p].session[1] EXCEPT !.id = Len(sessions) + 1])
  /\ IF procs[p].blockedApps > 0
     THEN CreateSessionGoesOn(p, Len(sessions) + 1, "appBlocks")
     ELSE IF procs[p].blockedWebsites > 0
          THEN CreateSessionGoesOn(p, Len(sessions) + 1, "websiteBlocks")
          ELSE CreateSessionReturns(p)
  /\ UNCHANGED <<now, sessionBlocks, stats, scoreVars>>

\* The INSERT of the blocks of the apps.  Without blocked websites the call
\* returns here.
InsertAppBlocks(p) ==
  /\ procs[p].pc = "appBlocks"
  /\ sessionBlocks' = sessionBlocks
                        \o NewSessionBlocks(sessionBlocks, procs[p].sid, "app",
                                            procs[p].blockedApps)
  /\ IF procs[p].blockedWebsites > 0
     THEN CreateSessionGoesOn(p, procs[p].sid, "websiteBlocks")
     ELSE CreateSessionReturns(p)
  /\ UNCHANGED <<now, sessions, stats, scoreVars>>

\* The INSERT of the blocks of the websites; createSession returns the
\* session.
InsertWebsiteBlocks(p) ==
  /\ procs[p].pc = "websiteBlocks"
  /\ sessionBlocks' = sessionBlocks
                        \o NewSessionBlocks(sessionBlocks, procs[p].sid, "website",
                                            procs[p].blockedWebsites)
  /\ CreateSessionReturns(p)
  /\ UNCHANGED <<now, sessions, stats, scoreVars>>

\* A database error at a statement of createSession after the SELECT of the
\* goal: the catch logs and rethrows it, and what the call has inserted so
\* far stays.
CreateSessionThrows(p) ==
  /\ procs[p].pc \in {"milestone", "insert", "appBlocks", "websiteBlocks"}
  /\ procs' = [procs EXCEPT ![p] = IdleProc]
  /\ lastOp' = [NoOp EXCEPT !.op = "createSessionError"]
  /\ UNCHANGED <<now, sessions, sessionBlocks, stats, scoreVars>>

\* ------------------------------------------------------------ startSession
\* The session exists and its status is 'scheduled'.
SessionStartable(sid) ==
  IF sid \in 1..Len(sessions) THEN sessions[sid].status = "scheduled" ELSE FALSE

\* The SELECT of the session WHERE id AND status = 'scheduled'; no row throws.
SelectScheduledSession(p, sid) ==
  /\ procs[p].pc = "idle"
  /\ IF SessionStartable(sid)
     THEN /\ procs' = [procs EXCEPT ![p] = [IdleProc EXCEPT !.pc = "start", !.sid = sid]]
          /\ UNCHANGED lastOp
     ELSE /\ lastOp' = [NoOp EXCEPT !.op = "startSessionError"]
          /\ UNCHANGED procs
  /\ UNCHANGED <<now, sessions, sessionBlocks, stats, scoreVars>>

\* The UPDATE of the session to 'active', WHERE id = session_id.
UpdateStartedSession(p) ==
  /\ procs[p].pc = "start"
  /\ sessions' = [sessions EXCEPT ![procs[p].sid].status = "active"]
  /\ procs' = [procs EXCEPT ![p].pc = "startBlocks"]
  /\ UNCHANGED <<now, sessionBlocks, stats, lastOp, scoreVars>>

\* The UPDATE of session_blocks: every block of the session is activated;
\* startSession returns the session.
ActivateSessionBlocks(p) ==
  /\ procs[p].pc = "startBlocks"
  /\ sessionBlocks' = [i \in DOMAIN sessionBlocks |->
                         IF sessionBlocks[i].session_id = procs[p].sid
                         THEN [sessionBlocks[i] EXCEPT !.is_active = TRUE]
                         ELSE sessionBlocks[i]]
  /\ procs' = [procs EXCEPT ![p] = IdleProc]
  /\ lastOp' = [NoOp EXCEPT !.op = "startSession"]
  /\ UNCHANGED <<now, sessions, stats, scoreVars>>


\* ---------------------------------------------------------- getLeaderboard
\* `input.limit || 10`
DefaultLimit == 10

\* An optional string is a sequence of at most one string; JS takes the
\* missing and the empty string as false.
Truthy(optional) == IF Len(optional) = 0 THEN FALSE ELSE optional[1] # ""

\* Mutant: ORDER BY leaderboard_score ascending.
SortsBefore_Ascending(a, b) == ScoreLess(a.leaderboard_score, b.leaderboard_score)

\* ORDER BY leaderboard_score DESC: a must come before b.
SortsBefore(a, b) == ScoreLess(b.leaderboard_score, a.leaderboard_score)

\* Mutant: the read applies the decay since the last score update itself.
ReturnedRow_Decayed(row, t) ==
  [row EXCEPT !.leaderboard_score =
                 DecayedScore(row.leaderboard_score, t - row.last_score_update)]

\* The record returned for a selected row: parseFloat(score.toString()) of a
\* JS number gives the same number back, every other column is copied.
ReturnedRow(row, t) == row

Ranked(rows) ==
  {<<Cardinality({y \in rows : SortsBefore(y, r)}), r>> : r \in rows}

GetLeaderboard(category, limitInput) ==
  /\ LET limit == OrElse(limitInput, DefaultLimit)
         selected == IF Truthy(category)
                     THEN {stats[i] : i \in {j \in DOMAIN stats :
                                                stats[j].category = category[1]}}
                     ELSE {stats[i] : i \in DOMAIN stats}
     IN  \E results \in OrderedLimit(Ranked(selected), limit) :
           lastOp' = [NoOp EXCEPT
                        !.op = "getLeaderboard",
                        !.category = category,
                        !.limit = limitInput,
                        !.rows = [i \in DOMAIN results |-> ReturnedRow(results[i], now)]]
  /\ UNCHANGED <<now, sessions, sessionBlocks, stats, scoreVars, callVars>>


\* ------------------------------------------------------- the specification
\* The table after the sessions of `done` were completed one request after
\* the other, each at its completed_at.
RECURSIVE StatsAfterCompletions(_)
StatsAfterCompletions(done) ==
  IF Len(done) = 0 THEN <<>>
  ELSE LET session == done[Len(done)]
           table == StatsAfterCompletions(SubSeq(done, 1, Len(done) - 1))
           existingStats == CHOOSE rows \in SelectExistingStats(table, session.user_id, session) :
                              TRUE
       IN  WriteUserStats(table, session.user_id, session, session.completed_at,
                          existingStats)

\* One block per session, active while the session is not completed.
BlocksOf(table) ==
  [i \in DOMAIN table |->
     [id |-> i, session_id |-> table[i].id, block_type |-> "app",
      is_active |-> table[i].status # "completed"]]

\* A day and a half ago the user completed a session of the goal "mental";
\* a session of the goal "physical" is active.
InitialSessions ==
  << CompletedSession(ActiveSession(1, 1, 2, 30), NULL, 30, 0),
     ActiveSession(2, 1, 1, 30) >>

\* createSession is called until this many sessions exist.
MaxSessions == Len(InitialSessions) + 1

\* What the createSession calls ask for, as <<goal, milestone, blocked apps,
\* blocked websites>>: nothing to block, apps and websites, websites and a
\* milestone of the goal, apps only, the milestone of another goal, a
\* milestone that does not exist, the goal of another user.
CreateInputs ==
  { <<1, NULL, 0, 0>>, <<1, NULL, 1, 1>>, <<1, 1, 0, 1>>, <<1, NULL, 1, 0>>,
    <<1, 2, 0, 0>>, <<1, 3, 0, 0>>, <<3, NULL, 0, 0>> }

Init ==
  /\ now = Day + 1
  /\ sessions = InitialSessions
  /\ sessionBlocks = BlocksOf(InitialSessions)
  /\ stats = StatsAfterCompletions(SubSeq(InitialSessions, 1, 1))
  /\ lastOp = NoOp
  /\ scoreArgs = <<0, 0, 0>>
  /\ scoreResult = NULL
  /\ procs = NoProcs

\* Two workers serve the calls that create, start and complete sessions,
\* and the decay sweep, all within one tick.  The reads are interleaved with
\* completions in SpecRace.
Next ==
  \/ \E p \in Workers, input \in CreateInputs :
       SelectGoalOfUser(p, 1, input[1], input[2], 30, input[3], input[4],
                        MaxSessions)
  \/ \E p \in Workers : SelectMilestone(p)
  \/ \E p \in Workers : InsertSession(p)
  \/ \E p \in Workers : InsertAppBlocks(p)
  \/ \E p \in Workers : InsertWebsiteBlocks(p)
  \/ \E p \in Workers : CreateSessionThrows(p)
  \/ \E p \in Workers, sid \in 1..Len(sessions) : SelectScheduledSession(p, sid)
  \/ \E p \in Workers : UpdateStartedSession(p)
  \/ \E p \in Workers : ActivateSessionBlocks(p)
  \/ \E p \in Workers, sid \in 1..(Len(sessions) + 1) : SelectSession(p, sid, NULL)
  \/ \E p \in Workers : UpdateSession(p)
  \/ \E p \in Workers : UpdateSessionBlocks(p)
  \/ \E p \in Workers : CompleteSessionThrows(p)
  \/ \E p \in Workers : SelectGoal(p)
  \/ \E p \in Workers : SelectUserStats(p)
  \/ \E p \in Workers : InsertOrUpdateUserStats(p)
  \/ \E p \in Workers : UpdateUserStatsFails(p)
  \/ \E p \in Workers : ReturnSession(p)
  \/ \E p \in Workers : UpdateLeaderboardScoresCall(p)
  \/ \E p \in Workers : UpdateLeaderboardScores(p)

Spec == Init /\ [][Next]_vars

\* --------------------------------------------- completions and decay sweeps
\* One client completes three sessions, two of one goal and one of another,
\* over two days, starting from an empty statistics table; a job calls the
\* decay sweep, whose call and whose UPDATE run between any two statements of
\* the client.
Clients == {1}

\* The job that calls updateLeaderboardScores.
Sweepers == {2}

DecaySessions ==
  << ActiveSession(1, 1, 1, 30), ActiveSession(2, 1, 1, 30),
     ActiveSession(3, 1, 2, 30) >>

InitDecay ==
  /\ now = 0
  /\ sessions = DecaySessions
  /\ sessionBlocks = BlocksOf(DecaySessions)
  /\ stats = <<>>
  /\ lastOp = NoOp
  /\ scoreArgs = <<0, 0, 0>>
  /\ scoreResult = NULL
  /\ procs = NoProcs

NextDecay ==
  \/ Tick
  \/ \E p \in Clients, sid \in 1..(Len(sessions) + 1) : SelectSession(p, sid, NULL)
  \/ \E p \in Clients : UpdateSession(p)
  \/ \E p \in Clients : UpdateSessionBlocks(p)
  \/ \E p \in Clients : SelectGoal(p)
  \/ \E p \in Clients : SelectUserStats(p)
  \/ \E p \in Clients : InsertOrUpdateUserStats(p)
  \/ \E p \in Clients : ReturnSession(p)
  \/ \E p \in Sweepers : UpdateLeaderboardScoresCall(p)
  \/ \E p \in Sweepers : UpdateLeaderboardScores(p)

SpecDecay == InitDecay /\ [][NextDecay]_vars

\* ------------------------------------------- the score function on its own
\* calculateLeaderboardScore applied to arguments drawn from bounded ranges.
InitScore ==
  /\ now = 0
  /\ sessions = <<>>
  /\ sessionBlocks = <<>>
  /\ stats = <<>>
  /\ lastOp = NoOp
  /\ scoreArgs \in (0..MaxScoreSessions) \X (0..MaxScoreDuration) \X (0..MaxScoreStreak)
  /\ scoreResult = NULL
  /\ procs = NoProcs

ApplyScore ==
  /\ scoreResult = NULL
  /\ scoreResult' = calculateLeaderboardScore(scoreArgs[1], scoreArgs[2], scoreArgs[3])
  /\ UNCHANGED <<mainVars, scoreArgs, callVars>>

NextScore == ApplyScore

SpecScore == InitScore /\ [][NextScore]_vars

\* ------------------------------------------------- one goal over many days
\* One user works on one goal.  All sessions but the last two were completed
\* one a day; the run starts with the last of them and goes on for
\* MaxStreakTime ticks, with sweeps and reads between the statements of the
\* two completions that are left.
StreakSessions ==
  [i \in 1..MaxStreakSessions |->
     IF i <= MaxStreakSessions - 2
     THEN CompletedSession(ActiveSession(i, 1, 1, 30), NULL, 30, (i - 1) * Day)
     ELSE ActiveSession(i, 1, 1, 30)]

StreakStart == (MaxStreakSessions - 3) * Day

InitStreak ==
  /\ now = StreakStart
  /\ sessions = StreakSessions
  /\ sessionBlocks = <<>>
  /\ stats = StatsAfterCompletions(SubSeq(StreakSessions, 1, MaxStreakSessions - 2))
  /\ lastOp = NoOp
  /\ scoreArgs = <<0, 0, 0>>
  /\ scoreResult = NULL
  /\ procs = NoProcs

TickStreak == TickUpTo(StreakStart + MaxStreakTime)

NextStreak ==
  \/ TickStreak
  \/ \E p \in Clients, sid \in 1..Len(sessions), a \in ActualDurations \cup {NULL} :
       SelectSession(p, sid, a)
  \/ \E p \in Clients : UpdateSession(p)
  \/ \E p \in Clients : UpdateSessionBlocks(p)
  \/ \E p \in Clients : SelectGoal(p)
  \/ \E p \in Clients : SelectUserStats(p)
  \/ \E p \in Clients : InsertOrUpdateUserStats(p)
  \/ \E p \in Clients : ReturnSession(p)
  \/ \E p \in Sweepers : UpdateLeaderboardScoresCall(p)
  \/ \E p \in Sweepers : UpdateLeaderboardScores(p)
  \/ \E p \in Clients : GetUserStatsCall(p, 1, "physical", HoursPerDay)
  \/ \E p \in Clients : SelectStats(p)
  \/ \E p \in Clients, i \in 1..Len(stats) : SelectRecentSessions(p, i)
  \/ \E p \in Clients, i \in 1..Len(stats) : ResetStreak(p, i)
  \/ \E p \in Clients : ReturnStats(p)

SpecStreak == InitStreak /\ [][NextStreak]_vars

\* ------------------------------------------------- writes between reads
\* One client completes a session in each of two categories and reads the
\* user's statistics, starting from an empty statistics table; the decay
\* sweep runs between any two statements.
ReadSessions == << ActiveSession(1, 1, 1, 30), ActiveSession(2, 1, 2, 30) >>

\* The client reports 35 minutes.
ReadActualDurations == {35}

ReadCategories == {"", "mental"}

InitReads ==
  /\ now = 0
  /\ sessions = ReadSessions
  /\ sessionBlocks = <<>>
  /\ stats = <<>>
  /\ lastOp = NoOp
  /\ scoreArgs = <<0, 0, 0>>
  /\ scoreResult = NULL
  /\ procs = NoProcs

TickReads == TickUpTo(MaxReadTime)

NextReads ==
  \/ TickReads
  \/ \E p \in Clients, sid \in 1..Len(sessions), a \in ReadActualDurations :
       SelectSession(p, sid, a)
  \/ \E p \in Clients : UpdateSession(p)
  \/ \E p \in Clients : UpdateSessionBlocks(p)
  \/ \E p \in Clients : SelectGoal(p)
  \/ \E p \in Clients : SelectUserStats(p)
  \/ \E p \in Clients : InsertOrUpdateUserStats(p)
  \/ \E p \in Clients : ReturnSession(p)
  \/ \E p \in Sweepers : UpdateLeaderboardScoresCall(p)
  \/ \E p \in Sweepers : UpdateLeaderboardScores(p)
  \/ \E p \in Clients, c \in ReadCategories, d \in CalendarDayHours :
       GetUserStatsCall(p, 1, c, d)
  \/ \E p \in Clients : SelectStats(p)
  \/ \E p \in Clients, i \in 1..Len(stats) : SelectRecentSessions(p, i)
  \/ \E p \in Clients, i \in 1..Len(stats) : ResetStreak(p, i)
  \/ \E p \in Clients : ReturnStats(p)

SpecReads == InitReads /\ [][NextReads]_vars

\* ---------------------------------------------- calls racing on one record
\* Two requests at a time complete the two active sessions of a goal or read
\* the user's statistics.  The table starts as the completion of the first
\* session at time 0 left it.
RaceSessions ==
  << CompletedSession(ActiveSession(1, 1, 1, 30), NULL, 30, 0),
     ActiveSession(2, 1, 1, 30), ActiveSession(3, 1, 1, 30) >>

InitRace ==
  /\ now = 0
  /\ sessions = RaceSessions
  /\ sessionBlocks = <<>>
  /\ stats = StatsAfterCompletions(SubSeq(RaceSessions, 1, 1))
  /\ lastOp = NoOp
  /\ scoreArgs = <<0, 0, 0>>
  /\ scoreResult = NULL
  /\ procs = NoProcs

TickRace == TickUpTo(MaxRaceTime)

NextRace ==
  \/ TickRace
  \/ \E p \in Workers, sid \in 1..Len(sessions) : SelectSession(p, sid, NULL)
  \/ \E p \in Workers : UpdateSession(p)
  \/ \E p \in Workers : UpdateSessionBlocks(p)
  \/ \E p \in Workers : SelectGoal(p)
  \/ \E p \in Workers : SelectUserStats(p)
  \/ \E p \in Workers : InsertOrUpdateUserStats(p)
  \/ \E p \in Workers : ReturnSession(p)
  \/ \E p \in Workers : GetUserStatsCall(p, 1, "", HoursPerDay)
  \/ \E p \in Workers : SelectStats(p)
  \/ \E p \in Workers, i \in 1..Len(stats) : SelectRecentSessions(p, i)
  \/ \E p \in Workers, i \in 1..Len(stats) : ResetStreak(p, i)
  \/ \E p \in Workers : ReturnStats(p)

SpecRace == InitRace /\ [][NextRace]_vars
\* ------------------------------------------- records of two users, racing
\* User 1 has completed four sessions of the goal "physical" on consecutive
\* days and user 2 three sessions of a goal of the same category; the last
\* of them were completed a day and a half before the run starts.  Each user
\* has an active session of that goal.  Two workers complete the active
\* sessions, a session at a time or the same session twice; between their
\* statements the first worker also reads the statistics of user 1 and the
\* second calls the decay sweep.
RecordsCompleted ==
  [i \in 1..7 |->
     IF i <= 4
     THEN CompletedSession(ActiveSession(i, 1, 1, 30), NULL, 30, (i - 1) * Day)
     ELSE CompletedSession(ActiveSession(i, 2, 3, 30), NULL, 30, (i - 4) * Day)]

RecordsActive ==
  << ActiveSession(8, 1, 1, 30), ActiveSession(9, 2, 3, 30) >>

RecordsStart == 4 * Day + 1

InitRecords ==
  /\ now = RecordsStart
  /\ sessions = RecordsCompleted \o RecordsActive
  /\ sessionBlocks = <<>>
  /\ stats = StatsAfterCompletions(RecordsCompleted)
  /\ lastOp = NoOp
  /\ scoreArgs = <<0, 0, 0>>
  /\ scoreResult = NULL
  /\ procs = NoProcs

TickRecords == TickUpTo(RecordsStart + MaxRecordsTime)

NextRecords ==
  \/ TickRecords
  \/ \E p \in Workers, i \in DOMAIN RecordsActive :
       SelectSession(p, RecordsActive[i].id, NULL)
  \/ \E p \in Workers : UpdateSession(p)
  \/ \E p \in Workers : UpdateSessionBlocks(p)
  \/ \E p \in Workers : SelectGoal(p)
  \/ \E p \in Workers : SelectUserStats(p)
  \/ \E p \in Workers : InsertOrUpdateUserStats(p)
  \/ \E p \in Workers : ReturnSession(p)
  \/ \E p \in Sweepers : UpdateLeaderboardScoresCall(p)
  \/ \E p \in Sweepers : UpdateLeaderboardScores(p)
  \/ \E p \in Clients : GetUserStatsCall(p, 1, "", HoursPerDay)
  \/ \E p \in Clients : SelectStats(p)
  \/ \E p \in Clients, i \in 1..Len(stats) : SelectRecentSessions(p, i)
  \/ \E p \in Clients, i \in 1..Len(stats) : ResetStreak(p, i)
  \/ \E p \in Clients : ReturnStats(p)

SpecRecords == InitRecords /\ [][NextRecords]_vars

\* ------------------------------------- two users in one category, racing
\* User 1 has a record in "mental" and user 2 a record in "physical", each
\* from one completed session.  User 1 has two active sessions of the goal
\* "physical", for which the table holds no record of that user yet, and user 2
\* one more of the goal already counted.  Two workers complete them within
\* one tick, a session at a time or the same session twice.
UsersCompleted ==
  << CompletedSession(ActiveSession(1, 1, 2, 30), NULL, 30, 0),
     CompletedSession(ActiveSession(2, 2, 3, 30), NULL, 30, 0) >>

UsersActive ==
  << ActiveSession(3, 1, 1, 30), ActiveSession(4, 1, 1, 30),
     ActiveSession(5, 2, 3, 30) >>

InitUsers ==
  /\ now = 1
  /\ sessions = UsersCompleted \o UsersActive
  /\ sessionBlocks = <<>>
  /\ stats = StatsAfterCompletions(UsersCompleted)
  /\ lastOp = NoOp
  /\ scoreArgs = <<0, 0, 0>>
  /\ scoreResult = NULL
  /\ procs = NoProcs

NextUsers ==
  \/ \E p \in Workers, sid \in 1..Len(sessions) : SelectSession(p, sid, NULL)
  \/ \E p \in Workers : UpdateSession(p)
  \/ \E p \in Workers : UpdateSessionBlocks(p)
  \/ \E p \in Workers : SelectGoal(p)
  \/ \E p \in Workers : SelectUserStats(p)
  \/ \E p \in Workers : InsertOrUpdateUserStats(p)
  \/ \E p \in Workers : ReturnSession(p)

SpecUsers == InitUsers /\ [][NextUsers]_vars


\* ------------------------------------------------------ a full leaderboard
\* Many users complete their first session, each of their own goal; the
\* client that completes the sessions also calls the sweep, which decays the
\* scores, and the leaderboard is read between any two statements.  All users but
\* the last have completed their session when the run starts.
\* Later users work longer; the first three all work 30 minutes and tie.
BoardDuration(userId) == 10 * (IF userId < 3 THEN 3 ELSE userId)

BoardLimits == {NULL, 2}

BoardCategoryInputs == {<<>>, <<"">>, <<"physical">>, <<"mental">>, <<"skill">>}

BoardSessions ==
  [i \in 1..MaxBoardUsers |->
     IF i <= MaxBoardUsers - 1
     THEN CompletedSession(ActiveSession(i, i, BoardGoal(i), BoardDuration(i)),
                           NULL, BoardDuration(i), 0)
     ELSE ActiveSession(i, i, BoardGoal(i), BoardDuration(i))]

InitBoard ==
  /\ now = 0
  /\ sessions = BoardSessions
  /\ sessionBlocks = <<>>
  /\ stats = StatsAfterCompletions(SubSeq(BoardSessions, 1, MaxBoardUsers - 1))
  /\ lastOp = NoOp
  /\ scoreArgs = <<0, 0, 0>>
  /\ scoreResult = NULL
  /\ procs = NoProcs

TickBoard == TickUpTo(MaxBoardTime)

NextBoard ==
  \/ TickBoard
  \/ \E p \in Clients, sid \in 1..Len(sessions) : SelectSession(p, sid, NULL)
  \/ \E p \in Clients : UpdateSession(p)
  \/ \E p \in Clients : UpdateSessionBlocks(p)
  \/ \E p \in Clients : SelectGoal(p)
  \/ \E p \in Clients : SelectUserStats(p)
  \/ \E p \in Clients : InsertOrUpdateUserStats(p)
  \/ \E p \in Clients : ReturnSession(p)
  \/ \E p \in Clients : UpdateLeaderboardScoresCall(p)
  \/ \E p \in Clients : UpdateLeaderboardScores(p)
  \/ \E c \in BoardCategoryInputs, l \in BoardLimits : GetLeaderboard(c, l)

SpecBoard == InitBoard /\ [][NextBoard]_vars

\* ------------------------------------------------ vocabulary of the claims
\* The rows of a table that belong to (userId, category).
RowsOf(table, userId, category) ==
  {i \in DOMAIN table : table[i].user_id = userId /\ table[i].category = category}

\* The rows the INSERT or UPDATE of the call p is aimed at: those of the user
\* and the category of the session it has completed.
RowsWritten(p) ==
  RowsOf(stats, procs[p].session[1].user_id, SessionCategory(procs[p].session[1]))

\* The two scores are different numbers.
ScoreDiffers(a, b) == a # b /\ (ScoreLess(a, b) \/ ScoreLess(b, a))

WholeDaysBetween(from, to) == (to - from) \div TicksPerDay

\* ------------------------------------------------------------------ claims
\* C1: the write of a completion on an existing record of (user, category),
\* with no other completion of the record in flight, adds 1 to total_sessions
\* and to completed_sessions, adds the session's duration to total_duration,
\* sets last_activity and last_score_update to the time updateUserStats read,
\* and stores the score of the new completed_sessions, total_duration and
\* streak_days.
C1_ExistingRecordUpdated ==
  [][\A p \in Workers :
       InsertOrUpdateUserStats(p) =>
         \A i \in RowsWritten(p) :
           LET old == stats[i]
               new == stats'[i]
           IN  /\ new.total_sessions = old.total_sessions + 1
               /\ new.completed_sessions = old.completed_sessions + 1
               /\ new.total_duration
                    = old.total_duration + procs[p].session[1].actual_duration
               /\ new.last_activity = procs[p].t
               /\ new.last_score_update = procs[p].t
               /\ new.leaderboard_score =
                    FreshScore(calculateLeaderboardScore(new.completed_sessions,
                                                         new.total_duration,
                                                         new.streak_days))
               /\ new.id = old.id /\ new.user_id = old.user_id
               /\ new.category = old.category]_vars

\* A record has just received a completion of 25 minutes on top of the
\* completions of 30 minutes it counted.
C1_Witness ==
  /\ lastOp.op = "completeSession"
  /\ \E i \in DOMAIN stats, k \in DOMAIN sessions :
       /\ stats[i].total_sessions = k
       /\ k > 1
       /\ stats[i].total_duration = 30 * (k - 1) + 25
       /\ sessions[k].actual_duration = 25
       /\ stats[i].last_activity = sessions[k].completed_at
       /\ stats[i].last_activity > StreakStart

\* C2: the first completion for (user, category), of duration D, creates exactly
\* one record: total_sessions = 1, completed_sessions = 1, total_duration = D,
\* streak_days = 1, last_activity = last_score_update = the time
\* updateUserStats read, score(1, D, 1).
C2_FirstCompletionCreatesRecord ==
  [][\A p \in Workers :
       (InsertOrUpdateUserStats(p) /\ RowsWritten(p) = {}) =>
         LET session == procs[p].session[1]
             created == RowsOf(stats', session.user_id, SessionCategory(session))
         IN  /\ Len(stats') = Len(stats) + 1
             /\ \A i \in DOMAIN stats : stats'[i] = stats[i]
             /\ Cardinality(created) = 1
             /\ \A i \in created :
                  /\ stats'[i].total_sessions = 1
                  /\ stats'[i].completed_sessions = 1
                  /\ stats'[i].total_duration = session.actual_duration
                  /\ stats'[i].streak_days = 1
                  /\ stats'[i].last_activity = procs[p].t
                  /\ stats'[i].last_score_update = procs[p].t
                  /\ stats'[i].leaderboard_score =
                       FreshScore(calculateLeaderboardScore(
                                    1, session.actual_duration, 1))]_vars

\* A record created by a first completion while another record already exists.
C2_Witness ==
  /\ lastOp.op = "completeSession"
  /\ Len(stats) = 2
  /\ stats[2].total_sessions = 1
  /\ stats[2].total_duration = 35
  /\ stats[2].last_activity = now
  /\ stats[1].last_activity < now

\* C3: a completion on an existing record whose previous last_activity is less
\* than two whole days old (daysSinceLastActivity <= 0, the same day, or = 1,
\* the consecutive day) makes streak_days the previous streak_days + 1.
C3_StreakIncrementsWithinOneDay ==
  [][\A p \in Workers :
       InsertOrUpdateUserStats(p) =>
         \A i \in RowsWritten(p) :
           (/\ stats[i].last_activity # NULL
            /\ WholeDaysBetween(stats[i].last_activity, procs[p].t) <= 1)
           => stats'[i].streak_days = stats[i].streak_days + 1]_vars

\* C4: a completion on an existing record whose previous last_activity is more
\* than one whole day old (daysSinceLastActivity > 1) makes streak_days exactly
\* 1 whatever it was; so does a record with no previous last_activity.
C4_StreakResetsAfterGap ==
  [][\A p \in Workers :
       InsertOrUpdateUserStats(p) =>
         \A i \in RowsWritten(p) :
           (\/ stats[i].last_activity = NULL
            \/ WholeDaysBetween(stats[i].last_activity, procs[p].t) > 1)
           => stats'[i].streak_days = 1]_vars

\* A completion two whole days or more after the one before has just put a
\* record that was at a streak of three days or more back to 1.
C4_Witness ==
  \E p \in Workers :
    /\ procs[p].pc = "return"
    /\ Len(procs[p].existingStats) = 1
    /\ procs[p].existingStats[1].streak_days >= 3
    /\ procs[p].existingStats[1].last_activity + 2 * TicksPerDay <= procs[p].t
    /\ \E i \in RowsOf(stats, 1, "physical") :
         /\ stats[i].streak_days = 1
         /\ stats[i].last_activity = procs[p].t
         /\ stats[i].total_sessions = procs[p].existingStats[1].total_sessions + 1

\* C5: for non-negative integers the score is
\*   completedSessions * 10 + floor(totalDuration / 10) + min(streakDays * 5, 100);
\* the streak term never exceeds 100 and the score does not decrease when any
\* one of the three inputs grows.
C5_ScoreFormula ==
  scoreResult # NULL =>
    LET c == scoreArgs[1]
        d == scoreArgs[2]
        k == scoreArgs[3]
        bonus == IF k * 5 <= 100 THEN k * 5 ELSE 100
    IN  /\ \E q \in 0..d :
             /\ 10 * q <= d
             /\ d < 10 * q + 10
             /\ scoreResult = c * 10 + q + bonus
        /\ scoreResult - calculateLeaderboardScore(c, d, 0) <= 100
        /\ calculateLeaderboardScore(c + 1, d, k) >= scoreResult
        /\ calculateLeaderboardScore(c, d + 1, k) >= scoreResult
        /\ calculateLeaderboardScore(c, d, k + 1) >= scoreResult

\* The score of arguments whose streak bonus is capped and whose duration is
\* not a multiple of 10.
C5_Witness ==
  /\ scoreResult # NULL
  /\ scoreArgs[1] > 0
  /\ scoreArgs[2] % 10 # 0 /\ scoreArgs[2] > 10
  /\ scoreArgs[3] * 5 > 100

\* C6: a decay sweep changes exactly the records with last_score_update older
\* than 24 hours before its `now` and a positive score; every other record is
\* left as it was, and updatedCount is the number of records changed.
C6_SweepSelectsStalePositive ==
  [][\A p \in Workers :
       UpdateLeaderboardScores(p) =>
         /\ DOMAIN stats' = DOMAIN stats
         /\ \A i \in DOMAIN stats :
              (stats'[i] # stats[i]) <=>
                (/\ stats[i].last_score_update < procs[p].t - TicksPerDay
                 /\ ScoreLess(FreshScore(0), stats[i].leaderboard_score))
         /\ lastOp'.updatedCount =
              Cardinality({i \in DOMAIN stats : stats'[i] # stats[i]})]_vars

\* A sweep that decayed one record and left alone another one, updated within
\* the last 24 hours.
C6_Witness ==
  /\ lastOp.op = "updateLeaderboardScores"
  /\ lastOp.at = now
  /\ lastOp.updatedCount = 1
  /\ Len(stats) = 2
  /\ \E i, j \in DOMAIN stats :
       /\ stats[i].last_score_update = now /\ stats[i].leaderboard_score.e > 0
       /\ stats[j].last_score_update < now
       /\ stats[j].last_score_update >= now - TicksPerDay
       /\ stats[j].leaderboard_score.e = 0

\* C7: every record a sweep selects gets the score old * 0.98^elapsedDays with
\* elapsedDays = (now - last_score_update) / 1 day, fractions of a day
\* included, `now` being the time the sweep read when it was called; the new
\* score is strictly less than the old one and not negative, and
\* last_score_update becomes that now.
C7_DecayByFractionalDays ==
  [][\A p \in Workers :
       UpdateLeaderboardScores(p) =>
         \A i \in DOMAIN stats :
           (/\ stats[i].last_score_update < procs[p].t - TicksPerDay
            /\ ScoreLess(FreshScore(0), stats[i].leaderboard_score))
           => LET old == stats[i].leaderboard_score
                  new == stats'[i].leaderboard_score
                  elapsedTicks == procs[p].t - stats[i].last_score_update
              IN  /\ new.m = old.m
                  /\ new.e = old.e + elapsedTicks
                  /\ ScoreLess(new, old)
                  /\ ~ ScoreLess(new, FreshScore(0))
                  /\ stats'[i].last_score_update = procs[p].t]_vars

\* A sweep has just decayed a score over one and a half days.
C7_Witness ==
  /\ lastOp.op = "updateLeaderboardScores"
  /\ lastOp.at = now
  /\ lastOp.updatedCount > 0
  /\ \E i \in DOMAIN stats :
       /\ stats[i].last_score_update = now
       /\ stats[i].leaderboard_score.e = TicksPerDay + 1

\* The last call that returned is a decay sweep and no statement has
\* written a statistics record since: no completion has passed its write and
\* no read is under way.
SweptLast ==
  /\ lastOp.op = "updateLeaderboardScores"
  /\ \A p \in Workers : procs[p].pc \notin {"return", "read"}

\* C8 as claimed: a sweep that follows a sweep, with no other write in between
\* and less than 24 hours later, changes no record and returns updatedCount 0.
C8_SecondSweepWithinDayIsEmpty ==
  [][\A p \in Workers :
       (/\ SweptLast
        /\ procs[p].t - lastOp.at < TicksPerDay
        /\ UpdateLeaderboardScores(p))
       => (stats' = stats /\ lastOp'.updatedCount = 0)]_vars

\* C8 amended: a sweep that follows a sweep, with no other write in between and
\* at most 24 hours later, changes no record whose last_score_update the first
\* sweep left at its own time; when both sweeps read the same time the second
\* changes no record at all and returns updatedCount 0.
C8_SecondSweepSparesFirstSweepRows ==
  [][\A p \in Workers :
       (/\ SweptLast
        /\ procs[p].t - lastOp.at <= TicksPerDay
        /\ UpdateLeaderboardScores(p))
       => /\ \A i \in DOMAIN stats :
               stats[i].last_score_update = lastOp.at => stats'[i] = stats[i]
          /\ procs[p].t = lastOp.at =>
               (stats' = stats /\ lastOp'.updatedCount = 0)]_vars

\* A sweep at a time at which a record was decayed returned updatedCount 0.
C8_Witness ==
  /\ lastOp.op = "updateLeaderboardScores"
  /\ lastOp.at = now
  /\ lastOp.updatedCount = 0
  /\ \E i \in DOMAIN stats :
       /\ stats[i].last_score_update = now
       /\ stats[i].leaderboard_score.e > 0
       /\ stats[i].streak_days > 0

\* C9: a sweep whose `now` is no more than 24 hours after the most recent
\* completion of a record (its last_activity) leaves that record as it was.
C9_FreshCompletionNotDecayed ==
  [][\A p \in Workers :
       UpdateLeaderboardScores(p) =>
         \A i \in DOMAIN stats :
           (/\ stats[i].last_activity # NULL
            /\ procs[p].t - stats[i].last_activity <= TicksPerDay)
           => stats'[i] = stats[i]]_vars

\* A sweep decayed one record and spared another whose last completion was
\* exactly 24 hours before.
C9_Witness ==
  /\ lastOp.op = "updateLeaderboardScores"
  /\ lastOp.at = now
  /\ lastOp.updatedCount = 1
  /\ \E i \in DOMAIN stats :
       /\ stats[i].last_activity = now - TicksPerDay
       /\ stats[i].last_score_update = stats[i].last_activity
       /\ stats[i].leaderboard_score.e = 0

\* C10: whenever a step changes the score of a record, or creates a record with
\* its score, the same step sets that record's last_score_update to the time
\* the operation read: the step is the decay sweep, which wrote its `now`, or
\* the write of a completion, which wrote the `now` of its updateUserStats.
C10_ScoreChangeAdvancesClock ==
  [][\A i \in DOMAIN stats' :
       (IF i \in DOMAIN stats
        THEN ScoreDiffers(stats'[i].leaderboard_score, stats[i].leaderboard_score)
        ELSE TRUE)
       => \/ \E p \in Workers :
               /\ UpdateLeaderboardScores(p)
               /\ stats'[i].last_score_update = procs[p].t
               /\ procs[p].t <= now
          \/ \E p \in Workers :
               /\ InsertOrUpdateUserStats(p)
               /\ stats'[i].last_score_update = procs[p].t
               /\ procs[p].t <= now]_vars

\* A record whose score a completion replaced more than a day after the
\* first completion of its category.
C10_Witness ==
  /\ lastOp.op = "completeSession"
  /\ \E i \in DOMAIN stats :
       /\ stats[i].total_sessions = 2
       /\ stats[i].last_score_update = now
       /\ stats[i].last_activity = now
       /\ stats[i].leaderboard_score.e = 0
       /\ now > TicksPerDay
       /\ \E sid \in DOMAIN sessions :
            /\ sessions[sid].status = "completed"
            /\ sessions[sid].completed_at < now - TicksPerDay
            /\ sessions[sid].user_id = stats[i].user_id
            /\ SessionCategory(sessions[sid]) = stats[i].category

\* C11 as stated: a completion never lowers the score of a record and a decay
\* sweep never raises it.
C11_CompletionRaisesSweepLowers ==
  [][/\ (\E p \in Workers : InsertOrUpdateUserStats(p)) =>
          \A i \in DOMAIN stats :
            ~ScoreLess(stats'[i].leaderboard_score, stats[i].leaderboard_score)
     /\ (\E p \in Workers : UpdateLeaderboardScores(p)) =>
          \A i \in DOMAIN stats :
            ~ScoreLess(stats[i].leaderboard_score, stats'[i].leaderboard_score)]_vars

\* The records the call selected differ from the records it would select now
\* only in the two columns the decay sweep writes.
OnlySweptSinceSelect(p) ==
  LET selected == procs[p].existingStats
  IN  /\ Cardinality(RowsWritten(p)) = Len(selected)
      /\ \A k \in DOMAIN selected :
           \E i \in RowsWritten(p) :
             [stats[i] EXCEPT
                !.leaderboard_score = selected[k].leaderboard_score,
                !.last_score_update = selected[k].last_score_update] = selected[k]

\* Record i is, but for the two columns the decay sweep writes, the record the
\* call p selected first and computed its values from: no other call has
\* written it since, and it is not a further record of the same user and
\* category.
ComputedFromRecord(p, i) ==
  LET first == procs[p].existingStats[1]
  IN  [stats[i] EXCEPT !.leaderboard_score = first.leaderboard_score,
                       !.last_score_update = first.last_score_update] = first

\* The write of the call p takes the `else` branch of the streak: the last
\* activity of the record it selected is two whole days or more before the
\* time it read, and the streak it replaces by 1 counted four days or more,
\* on a record of four completed sessions or more.
RestartsLongStreak(p) ==
  LET first == procs[p].existingStats[1]
  IN  /\ first.last_activity # NULL
      /\ WholeDaysBetween(first.last_activity, procs[p].t) > 1
      /\ NewStreak(first, procs[p].t) = 1
      /\ first.streak_days >= 4
      /\ first.completed_sessions >= 4

\* C11 amended: a decay sweep never raises the score of a record, under any
\* interleaving.  A completion lowers the score of a record only in one of
\* three cases: it restarts at one day a streak of four days or more (on a
\* record that counts at least four completed sessions); the streak of the
\* record it selected was 0, reset by a getUserStats after the score was
\* computed; or the record it overwrites is not, decay apart, the record as
\* the call selected it, another completion or a getUserStats having written
\* it between the call's SELECT and its write (a stale write), or the record
\* being a further record of the same user and category.
C11_SweepLowersCompletionRaisesUnlessStreakRestarts ==
  [][/\ \A p \in Workers :
          InsertOrUpdateUserStats(p) =>
            \A i \in DOMAIN stats :
              ScoreLess(stats'[i].leaderboard_score, stats[i].leaderboard_score) =>
                \/ ~ComputedFromRecord(p, i)
                \/ procs[p].existingStats[1].streak_days = 0
                \/ RestartsLongStreak(p) /\ stats'[i].streak_days = 1
     /\ (\E p \in Workers : UpdateLeaderboardScores(p)) =>
          \A i \in DOMAIN stats :
            ~ScoreLess(stats[i].leaderboard_score, stats'[i].leaderboard_score)]_vars

\* A completion two days after the one before has just restarted the streak
\* of the record of user 1, which counted four sessions and four days, and
\* left it a lower score than the call had selected; the record of user 2,
\* whose streak of three days was restarted on its fourth session, scores
\* more than it did with three sessions.
C11_Witness ==
  \E p \in Workers :
    /\ procs[p].pc = "return"
    /\ Len(procs[p].existingStats) = 1
    /\ procs[p].existingStats[1].completed_sessions = 4
    /\ procs[p].existingStats[1].streak_days = 4
    /\ \E i \in RowsWritten(p) :
         /\ stats[i].completed_sessions = 5
         /\ stats[i].streak_days = 1
         /\ stats[i].last_activity = procs[p].t
         /\ ScoreLess(stats[i].leaderboard_score,
                      procs[p].existingStats[1].leaderboard_score)
    /\ \E j \in DOMAIN stats :
         /\ stats[j].user_id # procs[p].session[1].user_id
         /\ stats[j].completed_sessions = 4
         /\ stats[j].streak_days = 1
         /\ ScoreLess(FreshScore(calculateLeaderboardScore(3, 90, 3)),
                      stats[j].leaderboard_score)

\* C12: a completion interleaved with a decay sweep on the same record ends in
\* the row of a serial order: when only sweeps ran between the completion's
\* SELECT and its write, the write leaves the table as the whole
\* updateUserStats, run after the sweep with the clock value it read, would
\* leave it.
C12_CompletionAndSweepSerializable ==
  [][\A p \in Workers :
       (InsertOrUpdateUserStats(p) /\ OnlySweptSinceSelect(p)) =>
         LET session == procs[p].session[1]
         IN  \E existingStats \in SelectExistingStats(stats, session.user_id, session) :
               stats' = WriteUserStats(stats, session.user_id, session, procs[p].t,
                                       existingStats)]_vars

\* A call has written its completion after a sweep decayed the record
\* between the call's SELECT and its write.
C12_Witness ==
  \E p \in Workers :
    /\ procs[p].pc = "return"
    /\ Len(procs[p].existingStats) = 1
    /\ Len(stats) = 1
    /\ lastOp.op = "updateLeaderboardScores"
    /\ lastOp.updatedCount = 1
    /\ procs[p].existingStats[1].last_score_update < lastOp.at - Day
    /\ procs[p].t <= lastOp.at
    /\ stats[1].total_sessions = procs[p].existingStats[1].total_sessions + 1
    /\ stats[1].last_score_update = procs[p].t
    /\ stats[1].leaderboard_score.e = 0

\* C13: at most one record per (user, category), also after two concurrent
\* first completions.
C13_OneRecordPerUserCategory ==
  \A i, j \in DOMAIN stats :
    (stats[i].user_id = stats[j].user_id /\ stats[i].category = stats[j].category)
    => i = j

\* C14: every record has completed_sessions <= total_sessions.
C14_CompletedAtMostTotal ==
  \A i \in DOMAIN stats : stats[i].completed_sessions <= stats[i].total_sessions

\* A completion has updated a record, which counts two sessions, both
\* completed, while a sweep has decayed the record of the other category,
\* inserted by an earlier completion.
C14_Witness ==
  /\ lastOp.op = "completeSession"
  /\ \E i, j \in DOMAIN stats :
       /\ stats[i].total_sessions = 2
       /\ stats[i].completed_sessions = 2
       /\ stats[j].category # stats[i].category
       /\ stats[j].total_sessions = 1
       /\ stats[j].completed_sessions = 1
       /\ stats[j].leaderboard_score.e > 0

\* C15: every record has leaderboard_score >= 0.  A power of 0.98 is positive,
\* so the sign of m * 0.98^(e / TicksPerDay) is the sign of m.
C15_ScoreNonNegative ==
  \A i \in DOMAIN stats :
    /\ stats[i].leaderboard_score.m >= 0
    /\ stats[i].leaderboard_score.e >= 0

\* A record whose score has been decayed over two days.
C15_Witness ==
  /\ lastOp.op = "updateLeaderboardScores"
  /\ \E i \in DOMAIN stats :
       /\ stats[i].leaderboard_score.e > TicksPerDay + 1
       /\ stats[i].last_score_update = now
       /\ stats[i].last_activity = 0

\* C16: a completion for user U in category C changes or creates only records
\* of (U, C); every record of another user or category is as it was.
C16_CompletionTouchesOnlyItsRecord ==
  [][\A p \in Workers :
       InsertOrUpdateUserStats(p) =>
         LET session == procs[p].session[1]
         IN  /\ \A i \in DOMAIN stats :
                  (\/ stats[i].user_id # session.user_id
                   \/ stats[i].category # SessionCategory(session))
                  => stats'[i] = stats[i]
             /\ \A i \in DOMAIN stats' \ DOMAIN stats :
                  /\ stats'[i].user_id = session.user_id
                  /\ stats'[i].category = SessionCategory(session)]_vars

\* User 1 has received a record in "physical" and then a second completion
\* on it, and the last call has returned, while the record of user 2 in
\* "physical" and the record of user 1 in "mental" are as they were at the
\* start.
C16_Witness ==
  /\ lastOp.op = "completeSession"
  /\ \A p \in Workers : procs[p].pc = "idle"
  /\ \E i \in RowsOf(stats, 1, "physical") : stats[i].total_sessions = 2
  /\ \E j \in RowsOf(stats, 2, "physical") :
       stats[j] = StatsAfterCompletions(UsersCompleted)[j]
  /\ \E k \in RowsOf(stats, 1, "mental") :
       stats[k] = StatsAfterCompletions(UsersCompleted)[k]
\* The stored records a leaderboard read with this category may return.
Eligible(category) ==
  {i \in DOMAIN stats : category \in {<<>>, <<"">>} \/ stats[i].category = category[1]}

\* A step of getLeaderboard, with the input it recorded: the only step that
\* leaves a leaderboard read as the last call without moving the clock or a
\* call in flight.
LeaderboardRead ==
  /\ lastOp'.op = "getLeaderboard"
  /\ now' = now
  /\ procs' = procs
  /\ sessions' = sessions

\* C17: getLeaderboard returns min(limit, number of matching records) records,
\* the highest-scoring ones, in descending order of score, of the given
\* category when one is supplied; with no limit supplied it returns at most 10.
C17_LeaderboardTopDescending ==
  [][LeaderboardRead =>
       LET rows == lastOp'.rows
           eligible == Eligible(lastOp'.category)
           cap == IF lastOp'.limit = NULL THEN 10 ELSE lastOp'.limit
           returned == {rows[i].id : i \in DOMAIN rows}
       IN  /\ Len(rows) = Min(cap, Cardinality(eligible))
           /\ returned \subseteq {stats[i].id : i \in eligible}
           /\ Cardinality(returned) = Len(rows)
           /\ \A i, j \in DOMAIN rows :
                i < j => ~ScoreLess(rows[i].leaderboard_score,
                                    rows[j].leaderboard_score)
           /\ \A i \in DOMAIN rows, j \in eligible :
                stats[j].id \notin returned =>
                  ~ScoreLess(rows[i].leaderboard_score, stats[j].leaderboard_score)]_vars

\* A read without limit has just returned 10 of 11 records, among them decayed
\* ones, and a record of the top score is first.
C17_Witness ==
  /\ lastOp.op = "getLeaderboard"
  /\ Len(stats) = 11
  /\ Len(lastOp.rows) = 10
  /\ \E i \in DOMAIN lastOp.rows : lastOp.rows[i].leaderboard_score.e > 0
  /\ lastOp.rows[1].leaderboard_score.e = 0
  /\ lastOp.rows[1].category # lastOp.rows[2].category

\* C18: getLeaderboard changes no record and applies no decay: every record it
\* returns is a stored record, score included.
C18_LeaderboardPureRead ==
  [][LeaderboardRead =>
       /\ stats' = stats
       /\ \A i \in DOMAIN lastOp'.rows :
            \E j \in DOMAIN stats : lastOp'.rows[i] = stats[j]]_vars

\* A read has just returned a record whose score is more than a day old and
\* was never decayed.
C18_Witness ==
  /\ lastOp.op = "getLeaderboard"
  /\ \E i \in DOMAIN lastOp.rows :
       /\ lastOp.rows[i].last_score_update < now - Day
       /\ lastOp.rows[i].leaderboard_score.e = 0
       /\ \E j \in DOMAIN stats : stats[j] = lastOp.rows[i]

\* C19: when the statistics update fails during completeSession the error is
\* swallowed: nothing is thrown, the session row is left as it is and the
\* call returns the session with status 'completed'.
C19_StatsFailureSwallowed ==
  [][\A p \in Workers :
       /\ UpdateUserStatsFails(p) =>
            /\ procs'[p].pc = "return"
            /\ procs'[p].session = procs[p].session
            /\ sessions' = sessions
            /\ lastOp' = lastOp
       /\ ReturnSession(p) =>
            /\ lastOp'.op = "completeSession"
            /\ procs[p].session[1].status = "completed"
            /\ procs[p].session[1].id = procs[p].sid
            /\ sessions' = sessions]_vars

\* The only session that could be completed is completed and the last call
\* returned normally, although no statistics record was written for it.
C19_Witness ==
  /\ lastOp.op = "completeSession"
  /\ Len(sessions) = Len(InitialSessions)
  /\ \A k \in DOMAIN sessions : sessions[k].status = "completed"
  /\ RowsOf(stats, 1, "physical") = {}
  /\ \A p \in Workers : procs[p].pc = "idle"

\* C20: completeSession on a session that does not exist or is not active
\* throws and leaves the sessions, the session blocks and every statistics
\* record unchanged.
C20_RejectedCompletionWritesNothing ==
  [][\A p \in Workers, sid \in 1..(Len(sessions) + 1) :
       (/\ \E a \in ActualDurations \cup {NULL} : SelectSession(p, sid, a)
        /\ \/ sid \notin DOMAIN sessions
           \/ \E s \in {sessions[i] : i \in DOMAIN sessions} :
                s.id = sid /\ s.status # "active")
       => /\ lastOp'.op = "completeSessionError"
          /\ procs'[p].pc = "idle"
          /\ sessions' = sessions
          /\ sessionBlocks' = sessionBlocks
          /\ stats' = stats]_vars

\* A call has just thrown while a completed session, its deactivated block, a
\* still active block and a statistics record exist.
C20_Witness ==
  /\ lastOp.op = "completeSessionError"
  /\ sessions[1].status = "completed"
  /\ ~sessionBlocks[1].is_active
  /\ sessionBlocks[2].is_active
  /\ Len(stats) = 1
  /\ \A p \in Workers : procs[p].pc = "idle"

\* The time at which the getUserStats call of p was made: the time one
\* calendar day after the threshold the call holds.
CalledAt(p) ==
  CHOOSE t \in 0..now :
    \E dayHours \in CalendarDayHours : procs[p].t = t * HoursPerTick - dayHours

\* C21: getUserStats stores and returns streak_days = 0 for a record exactly
\* when its last_activity is more than 24 hours old, its streak_days is above
\* 0 and the user has no completed session within the last 24 hours.  On the
\* statements of the call: it goes on to look at the sessions of a record
\* exactly when the record's last_activity is more than 24 hours before the
\* call; it goes on to reset only a streak above 0 and only when no session
\* was completed within the last 24 hours; the reset stores and returns 0.
C21_ReadResetsStaleStreaks ==
  [][\A p \in Workers :
       /\ SelectStats(p) =>
            \A k \in DOMAIN procs'[p].existingStats :
              LET row == procs'[p].existingStats[k]
              IN  (procs'[p].rowPc[k].pc = "recent")
                    <=> (/\ row.last_activity # NULL
                         /\ CalledAt(p) - row.last_activity > Day)
       /\ \A k \in DOMAIN procs[p].rowPc :
            /\ (SelectRecentSessions(p, k) /\ procs'[p].rowPc[k].pc = "reset") =>
                 /\ procs[p].existingStats[k].streak_days > 0
                 /\ ~\E s \in DOMAIN sessions :
                       /\ sessions[s].user_id = procs[p].userId
                       /\ sessions[s].status = "completed"
                       /\ CalledAt(p) - sessions[s].completed_at <= Day
            /\ ResetStreak(p, k) =>
                 /\ procs'[p].existingStats[k].streak_days = 0
                 /\ \A i \in DOMAIN stats :
                      stats'[i].streak_days =
                        IF stats[i].id = procs[p].existingStats[k].id
                        THEN 0 ELSE stats[i].streak_days]_vars

\* C22: across completions, decay sweeps and user-stats reads, the counters
\* total_sessions and completed_sessions of a record never decrease.
C22_CountersNeverDecrease ==
  [][\A i \in DOMAIN stats :
       /\ i \in DOMAIN stats'
       /\ stats'[i].id = stats[i].id
       /\ stats'[i].total_sessions >= stats[i].total_sessions
       /\ stats'[i].completed_sessions >= stats[i].completed_sessions]_vars

\* The write of a first completion, of 35 minutes, in category "physical" on
\* an empty table.
FirstCompletionOf35 ==
  /\ stats = <<>>
  /\ \E p \in Workers :
       /\ procs[p].pc = "write"
       /\ SessionCategory(procs[p].session[1]) = "physical"
       /\ procs[p].session[1].actual_duration = 35
       /\ InsertOrUpdateUserStats(p)

\* C23 as stated: the first completion of 35 minutes yields total_sessions 1,
\* completed_sessions 1, total_duration 35, streak_days 1 and score 45.
C23_FirstCompletionScores45 ==
  [][FirstCompletionOf35 =>
       /\ Len(stats') = 1
       /\ stats'[1].total_sessions = 1
       /\ stats'[1].completed_sessions = 1
       /\ stats'[1].total_duration = 35
       /\ stats'[1].streak_days = 1
       /\ stats'[1].leaderboard_score = FreshScore(45)]_vars

\* C23 amended: the same record, with the score the formula gives for
\* (1, 35, 1): 1 * 10 + floor(35 / 10) + min(1 * 5, 100) = 18.
C23_FirstCompletionScores18 ==
  [][FirstCompletionOf35 =>
       /\ Len(stats') = 1
       /\ stats'[1].category = "physical"
       /\ stats'[1].total_sessions = 1
       /\ stats'[1].completed_sessions = 1
       /\ stats'[1].total_duration = 35
       /\ stats'[1].streak_days = 1
       /\ stats'[1].leaderboard_score = FreshScore(18)]_vars

\* The first completion, of 35 minutes, has just created the only record.
C23_Witness ==
  /\ lastOp.op = "completeSession"
  /\ Len(stats) = 1
  /\ stats[1].category = "physical"
  /\ stats[1].total_sessions = 1
  /\ stats[1].total_duration = 35
  /\ stats[1].last_activity = now

\* The completions counted in the records of a user and category.
RECURSIVE SessionsCounted(_, _, _)
SessionsCounted(table, userId, category) ==
  IF Len(table) = 0 THEN 0
  ELSE SessionsCounted(SubSeq(table, 2, Len(table)), userId, category)
         + (IF table[1].user_id = userId /\ table[1].category = category
            THEN table[1].total_sessions ELSE 0)

\* The sessions of a user and category that are completed.
SessionsCompleted(userId, category) ==
  Cardinality({k \in DOMAIN sessions :
                 /\ sessions[k].user_id = userId
                 /\ sessions[k].status = "completed"
                 /\ SessionCategory(sessions[k]) = category})

\* C24: under any interleaving of completeSession calls for the same session
\* the session is counted at most once: the records of a user and category
\* never count more completions than the user has completed sessions there.
C24_SessionCountedAtMostOnce ==
  \A u \in UserIds, c \in Categories :
    SessionsCounted(stats, u, c) <= SessionsCompleted(u, c)

\* No completeSession call is between its first and its last statement: no
\* worker is at a statement of completeSession or of its updateUserStats, or
\* about to return or to rethrow.  Calls of the other handlers may be under
\* way.
NoCompletionInFlight ==
  \A p \in Workers :
    procs[p].pc \notin {"update", "blocks", "goal", "select", "write", "return",
                       "throw"}

\* The minutes of the completed sessions of a user and category.
RECURSIVE MinutesCompleted(_, _, _)
MinutesCompleted(table, userId, category) ==
  IF Len(table) = 0 THEN 0
  ELSE MinutesCompleted(SubSeq(table, 2, Len(table)), userId, category)
         + (IF /\ table[1].user_id = userId
               /\ table[1].status = "completed"
               /\ SessionCategory(table[1]) = category
            THEN table[1].actual_duration ELSE 0)

\* C25: when different sessions of one user and category are completed in
\* any interleaving, no increment is lost: once the calls have returned, the
\* record counts every completed session of the user in the category, in
\* total_sessions, in completed_sessions and in total_duration.
C25_NoIncrementLost ==
  NoCompletionInFlight =>
    \A i \in DOMAIN stats :
      /\ stats[i].total_sessions >= SessionsCompleted(stats[i].user_id, stats[i].category)
      /\ stats[i].completed_sessions >= SessionsCompleted(stats[i].user_id, stats[i].category)
      /\ stats[i].total_duration >= MinutesCompleted(sessions, stats[i].user_id, stats[i].category)

\* C26: when two completions of one (user, category) lie one whole day apart
\* (daysSinceLastActivity = 1 at the second), the streak after the second is
\* the streak after the first plus 1, whatever getUserStats calls ran in
\* between.  The record keeps no history, so this is stated on what every
\* completion leaves behind: a streak of at least 1, and of exactly 1 when it
\* created the record; the second completion then leaves at least 2, and
\* exactly 2 on a record that counted one session.
C26_ConsecutiveDayRaisesStreak ==
  [][\A p \in Workers :
       InsertOrUpdateUserStats(p) =>
         \A i \in RowsWritten(p) :
           (/\ stats[i].last_activity # NULL
            /\ WholeDaysBetween(stats[i].last_activity, procs[p].t) = 1)
           => /\ stats'[i].streak_days >= 2
              /\ stats[i].total_sessions = 1 => stats'[i].streak_days = 2]_vars

\* C27: last_score_update of a record changes only in a completion or in a
\* decay sweep; getUserStats never moves it.
C27_OnlyWritersMoveScoreClock ==
  [][\A i \in DOMAIN stats :
       stats'[i].last_score_update # stats[i].last_score_update
         => \/ \E p \in Workers : UpdateLeaderboardScores(p)
            \/ \E p \in Workers : InsertOrUpdateUserStats(p)]_vars

\* C30: under any interleaving of a completion with getUserStats calls for
\* the same user, a record whose last_activity lies within the last day (a
\* completion has just written it) has streak_days >= 1.
C30_RecentActivityKeepsStreak ==
  \A i \in DOMAIN stats :
    (stats[i].last_activity # NULL /\ stats[i].last_activity >= now - Day)
      => stats[i].streak_days >= 1

\* C28: when a decay sweep has returned, every eligible record has been
\* updated: no record is left with last_score_update older than 24 hours
\* before the sweep's `now` and a positive score that is still its score from
\* before the sweep.
C28_SweepLeavesNoEligibleRecord ==
  [][\A p \in Workers :
       UpdateLeaderboardScores(p) =>
         \A i \in DOMAIN stats' :
           ~ (/\ stats'[i].last_score_update < procs[p].t - TicksPerDay
              /\ ScoreLess(FreshScore(0), stats'[i].leaderboard_score)
              /\ stats'[i].leaderboard_score = stats[i].leaderboard_score)]_vars

\* A sweep has just updated two eligible records, one of them not yet two
\* days old.
C28_Witness ==
  /\ lastOp.op = "updateLeaderboardScores"
  /\ lastOp.at = now
  /\ lastOp.updatedCount = 2
  /\ \A i \in DOMAIN stats : stats[i].last_score_update = now
  /\ \E i \in DOMAIN stats : stats[i].leaderboard_score.e = TicksPerDay + 1

\* C29: after a completion on an existing record the stored score depends
\* only on the updated completed_sessions, total_duration and streak_days,
\* not on the score stored before: a record that a completion wrote last
\* (last_score_update = last_activity, which no sweep and no streak reset
\* leaves equal) holds exactly the undecayed score of its own counters.
C29_CompletionScoreFromCountersOnly ==
  \A i \in DOMAIN stats :
    (/\ stats[i].total_sessions >= 2
     /\ stats[i].last_score_update = stats[i].last_activity)
    => stats[i].leaderboard_score =
         FreshScore(calculateLeaderboardScore(stats[i].completed_sessions,
                                              stats[i].total_duration,
                                              stats[i].streak_days))

\* A sweep one and a half days after the first completions decayed both
\* records of the user, as the decay the other record still carries shows;
\* a second completion has then replaced the score of the first record (its
\* streak of 2 shows that no streak reset moved its clock before the sweep).
C29_Witness ==
  /\ lastOp.op = "completeSession"
  /\ Len(stats) = 2
  /\ sessions[1].completed_at = 0
  /\ \E i \in RowsOf(stats, 1, "physical"), j \in RowsOf(stats, 1, "mental") :
       /\ stats[j].leaderboard_score.e = TicksPerDay + 1
       /\ stats[j].last_score_update = TicksPerDay + 1
       /\ stats[i].total_sessions = 2
       /\ stats[i].streak_days = 2
       /\ stats[i].last_activity = now
       /\ stats[i].leaderboard_score.e = 0
====
